---- MODULE Spec2Model ----
(***************************************************************************)
(* A model of the two BERP batch scripts, update_data.py (sheet ->         *)
(* site_data.json) and build_site.py (sheet -> index.html).                *)
(*                                                                         *)
(* Text is a sequence of one-character strings ("$1,234.50" is             *)
(* <<"$","1",",","2","3","4",".","5","0">>); a header or a status value    *)
(* may use longer fragments (<<" ", "Company">>), a fragment standing for  *)
(* a run of non-blank characters.  Numbers are extended rationals          *)
(* [n, d]: d > 0 is the finite value n/d in lowest terms, <<1,0>> and      *)
(* <<-1,0>> are +inf and -inf, <<0,0>> is NaN.  Binary floating point      *)
(* rounding is not modelled.                                               *)
(***************************************************************************)
EXTENDS Integers, Sequences, FiniteSets, TLC

\* ------------------------------------------------------------------ numbers

Abs(x) == IF x < 0 THEN -x ELSE x

Sign(x) == IF x < 0 THEN -1 ELSE IF x > 0 THEN 1 ELSE 0

RECURSIVE Gcd(_, _)
Gcd(a, b) == IF b = 0 THEN a ELSE Gcd(b, a % b)

\* The float n/d (d may be negative or 0 on entry).
Num(n, d) ==
    IF d = 0 THEN [n |-> Sign(n), d |-> 0]
    ELSE LET g == Gcd(Abs(n), Abs(d))
         IN  [n |-> Sign(d) * (n \div g), d |-> Abs(d) \div g]

Int2Num(i) == [n |-> i, d |-> 1]
Zero == Int2Num(0)
NaN == [n |-> 0, d |-> 0]
PosInf == [n |-> 1, d |-> 0]
NegInf == [n |-> -1, d |-> 0]

IsNaN(a) == a.d = 0 /\ a.n = 0
IsFinite(a) == a.d > 0

\* IEEE addition: inf + (-inf) is NaN, inf + inf is inf.
FAdd(a, b) ==
    IF IsNaN(a) \/ IsNaN(b) THEN NaN
    ELSE IF a.d = 0 /\ b.d = 0 THEN (IF a.n = b.n THEN a ELSE NaN)
    ELSE IF a.d = 0 THEN a
    ELSE IF b.d = 0 THEN b
    ELSE Num(a.n * b.d + b.n * a.d, a.d * b.d)

\* IEEE multiplication: inf * 0 is NaN.
FMul(a, b) == Num(a.n * b.n, a.d * b.d)

\* Division by a finite non-zero constant.
FDiv(a, c) == FMul(a, Num(c.d, c.n))

\* a > 0 and a == 0 as floats compare (both false of NaN).
FPos(a) == a.n > 0
FIsZero(a) == a.n = 0 /\ a.d > 0

\* a < b for non-NaN a, b.
FLess(a, b) ==
    IF a.d = 0 \/ b.d = 0
    THEN (a.d = 0 /\ a.n < 0 /\ ~(b.d = 0 /\ b.n < 0))
         \/ (b.d = 0 /\ b.n > 0 /\ ~(a.d = 0 /\ a.n > 0))
    ELSE a.n * b.d < b.n * a.d

\* Series.fillna(0)
FillNa0(a) == IF IsNaN(a) THEN Zero ELSE a

\* ------------------------------------------------------------------ text

Digits == {"0", "1", "2", "3", "4", "5", "6", "7", "8", "9"}

DigitVal(c) ==
    CASE c = "0" -> 0 [] c = "1" -> 1 [] c = "2" -> 2 [] c = "3" -> 3
      [] c = "4" -> 4 [] c = "5" -> 5 [] c = "6" -> 6 [] c = "7" -> 7
      [] c = "8" -> 8 [] c = "9" -> 9

DigitChar(v) == <<"0", "1", "2", "3", "4", "5", "6", "7", "8", "9">>[v + 1]

IsSpace(c) == c = " "

RECURSIVE LStrip(_)
LStrip(s) == IF s # <<>> /\ IsSpace(Head(s)) THEN LStrip(Tail(s)) ELSE s

RECURSIVE RStrip(_)
RStrip(s) ==
    IF s # <<>> /\ IsSpace(s[Len(s)]) THEN RStrip(SubSeq(s, 1, Len(s) - 1)) ELSE s

\* str.strip()
Strip(s) == RStrip(LStrip(s))

AllDigits(s) == \A i \in 1..Len(s) : s[i] \in Digits

\* The value of a run of decimal digits.
RECURSIVE DigitsVal(_)
DigitsVal(s) ==
    IF s = <<>> THEN 0
    ELSE 10 * DigitsVal(SubSeq(s, 1, Len(s) - 1)) + DigitVal(s[Len(s)])

RECURSIVE Pow10(_)
Pow10(k) == IF k = 0 THEN 1 ELSE 10 * Pow10(k - 1)

\* str(i) of a non-negative integer.
RECURSIVE NatToStr(_)
NatToStr(i) ==
    IF i < 10 THEN <<DigitChar(i)>> ELSE NatToStr(i \div 10) \o <<DigitChar(i % 10)>>

\* str(i)
IntToStr(i) == IF i < 0 THEN <<"-">> \o NatToStr(-i) ELSE NatToStr(i)

RECURSIVE Zeros(_)
Zeros(k) == IF k <= 0 THEN <<>> ELSE <<"0">> \o Zeros(k - 1)

\* str.zfill(width): zeros go after a leading sign.
ZFill(s, width) ==
    IF s # <<>> /\ Head(s) \in {"-", "+"}
    THEN <<Head(s)>> \o Zeros(width - Len(s)) \o Tail(s)
    ELSE Zeros(width - Len(s)) \o s

Lower(c) ==
    CASE c = "I" -> "i" [] c = "N" -> "n" [] c = "F" -> "f" [] c = "A" -> "a"
      [] OTHER -> c

LowerStr(s) == [i \in 1..Len(s) |-> Lower(s[i])]

PosOf(s, c) == IF \E i \in 1..Len(s) : s[i] = c
               THEN CHOOSE i \in 1..Len(s) : s[i] = c /\ \A j \in 1..(i - 1) : s[j] # c
               ELSE 0

\* An unsigned decimal: digits, optionally with one point, at least one digit.
IsDecimal(s) ==
    LET p == PosOf(s, ".")
        ip == IF p = 0 THEN s ELSE SubSeq(s, 1, p - 1)
        fp == IF p = 0 THEN <<>> ELSE SubSeq(s, p + 1, Len(s))
    IN  AllDigits(ip) /\ AllDigits(fp) /\ Len(ip) + Len(fp) > 0

DecimalVal(s) ==
    LET p == PosOf(s, ".")
        ip == IF p = 0 THEN s ELSE SubSeq(s, 1, p - 1)
        fp == IF p = 0 THEN <<>> ELSE SubSeq(s, p + 1, Len(s))
    IN  Num(DigitsVal(ip) * Pow10(Len(fp)) + DigitsVal(fp), Pow10(Len(fp)))

\* pd.to_numeric(x, errors='coerce') of one string: blanks around the number
\* are skipped, "inf"/"infinity"/"nan" are read in any case, anything that
\* is no number is NaN.
ToNumeric(s) ==
    LET t == Strip(s)
        signed == t # <<>> /\ Head(t) \in {"-", "+"}
        sg == IF signed /\ Head(t) = "-" THEN -1 ELSE 1
        body == IF signed THEN Tail(t) ELSE t
        low == LowerStr(body)
    IN  IF low \in {<<"i", "n", "f">>, <<"i", "n", "f", "i", "n", "i", "t", "y">>}
        THEN [n |-> sg, d |-> 0]
        ELSE IF IsDecimal(body) THEN FMul(Int2Num(sg), DecimalVal(body))
        ELSE NaN

\* .str.replace(r'[$,%]', '', regex=True)
StripSymbols(s) == SelectSeq(s, LAMBDA c : c \notin {"$", ",", "%"})

\* ------------------------------------------------------------------ dates

IsLeap(y) == (y % 4 = 0 /\ y % 100 # 0) \/ y % 400 = 0

DaysIn(y, m) ==
    IF m = 2 THEN (IF IsLeap(y) THEN 29 ELSE 28)
    ELSE IF m \in {4, 6, 9, 11} THEN 30 ELSE 31

\* pd.to_datetime(text, errors='coerce').year of one string, 0 standing for
\* NaT: the ISO 8601 forms YYYY, YYYY-MM and YYYY-MM-DD, within the years a
\* nanosecond Timestamp holds whole (1678..2261).  Texts in other date
\* formats are not among the inputs drawn below.
ParsedYear(s) ==
    LET t == Strip(s)
        y == DigitsVal(SubSeq(t, 1, 4))
        m == DigitsVal(SubSeq(t, 6, 7))
        dd == DigitsVal(SubSeq(t, 9, 10))
        yOk == Len(t) >= 4 /\ AllDigits(SubSeq(t, 1, 4)) /\ y >= 1678 /\ y <= 2261
        mOk == Len(t) >= 7 /\ t[5] = "-" /\ AllDigits(SubSeq(t, 6, 7))
                 /\ m >= 1 /\ m <= 12
        dOk == Len(t) = 10 /\ t[8] = "-" /\ AllDigits(SubSeq(t, 9, 10))
                 /\ dd >= 1 /\ dd <= DaysIn(y, m)
    IN  IF yOk /\ (Len(t) = 4 \/ (mOk /\ (Len(t) = 7 \/ dOk))) THEN y ELSE 0

\* .str.extract(r'(\d{4})') then to_numeric(...).fillna(0).astype(int): the
\* leftmost run of four digits, 0 when there is none.
RECURSIVE ExtractYear(_)
ExtractYear(s) ==
    IF Len(s) < 4 THEN 0
    ELSE IF AllDigits(SubSeq(s, 1, 4)) THEN DigitsVal(SubSeq(s, 1, 4))
    ELSE ExtractYear(Tail(s))

\* ------------------------------------------------------------------ cells

\* A cell holds text or a number.
Str(s) == [t |-> "str", s |-> s, v |-> Zero]
NumC(v) == [t |-> "num", s |-> <<>>, v |-> v]
Null == [t |-> "null", s |-> <<>>, v |-> Zero]

\* Series.astype(str) of one cell; the only numbers it meets are the integer
\* defaults the cleaning loops have just put in.
AsStr(c) == IF c.t = "str" THEN c.s ELSE IntToStr(c.v.n)

\* pd.to_numeric(col.astype(str).str.replace(r'[$,%]', '', regex=True),
\*               errors='coerce').fillna(0) of one cell
CleanNumeric(c) == FillNa0(ToNumeric(StripSymbols(AsStr(c))))

\* pd.to_numeric(col, errors='coerce') of one cell of a raw column
RawNumeric(c) == IF c.t = "str" THEN ToNumeric(c.s) ELSE c.v

\* float -> int, towards zero
Trunc(a) == Sign(a.n) * (Abs(a.n) \div a.d)

\* ------------------------------------------------------------------ frames

\* A DataFrame: n rows with labels index, and columns in order, each a name
\* and one cell per row.  Two columns may carry the same name.
EmptyDF == [n |-> 0, index |-> <<>>, cols |-> <<>>]

ColNames(d) == {d.cols[i].name : i \in 1..Len(d.cols)}

\* name in df.columns
HasCol(d, name) == name \in ColNames(d)

ColCount(d, name) == Cardinality({i \in 1..Len(d.cols) : d.cols[i].name = name})

ColIdx(d, name) == CHOOSE i \in 1..Len(d.cols) :
                       d.cols[i].name = name /\ \A j \in 1..(i - 1) : d.cols[j].name # name

\* df[name]
Col(d, name) == d.cols[ColIdx(d, name)].vals

\* df[name] = vals: in place when the column exists, appended otherwise
SetCol(d, name, vals) ==
    IF HasCol(d, name)
    THEN [d EXCEPT !.cols[ColIdx(d, name)].vals = vals]
    ELSE [d EXCEPT !.cols = Append(@, [name |-> name, vals |-> vals])]

\* df.drop(columns=[name]): every column of that name goes
DropCol(d, name) == [d EXCEPT !.cols = SelectSeq(@, LAMBDA c : c.name # name)]

\* a scalar broadcast over the rows
Broadcast(d, c) == [i \in 1..d.n |-> c]

\* df[rows]: the rows at the given positions, labels kept
TakeRows(d, pos) ==
    [n |-> Len(pos),
     index |-> [k \in 1..Len(pos) |-> d.index[pos[k]]],
     cols |-> [c \in 1..Len(d.cols) |->
                  [name |-> d.cols[c].name,
                   vals |-> [k \in 1..Len(pos) |-> d.cols[c].vals[pos[k]]]]]]

\* the positions, in order, of the rows whose cell in vals is the text s
RECURSIVE RowsEqual(_, _, _)
RowsEqual(vals, s, from) ==
    IF from > Len(vals) THEN <<>>
    ELSE (IF vals[from].t = "str" /\ vals[from].s = s THEN <<from>> ELSE <<>>)
         \o RowsEqual(vals, s, from + 1)

\* Series.sum(): NaN is skipped
RECURSIVE FSumFrom(_, _)
FSumFrom(vals, from) ==
    IF from > Len(vals) THEN Zero
    ELSE IF IsNaN(vals[from].v) THEN FSumFrom(vals, from + 1)
    ELSE FAdd(vals[from].v, FSumFrom(vals, from + 1))

FSum(vals) == FSumFrom(vals, 1)

\* sort_values: a before b; NaN goes last either way
Before(a, b, ascending) ==
    IF IsNaN(a) THEN FALSE
    ELSE IF IsNaN(b) THEN TRUE
    ELSE IF ascending THEN FLess(a, b) ELSE FLess(b, a)

\* the row positions of vals in sorted order (ties keep their order)
RECURSIVE SortedPos(_, _, _)
SortedPos(vals, k, ascending) ==
    IF k = 0 THEN <<>>
    ELSE LET prev == SortedPos(vals, k - 1, ascending)
             at == Cardinality({j \in 1..Len(prev) :
                                  ~Before(vals[k].v, vals[prev[j]].v, ascending)})
         IN  SubSeq(prev, 1, at) \o <<k>> \o SubSeq(prev, at + 1, Len(prev))

\* ------------------------------------------------------------------ columns

COMPANY == <<"Company">>
GAS == <<"Gas Savings (MMBtu/yr)">>
ELEC == <<"Electric Savings (kWh/yr)">>
COST == <<"Total Cost Savings">>
IMPL_COST == <<"Implementation Costs">>
PERCENT == <<"Percent Progress">>
CO2_LOW == <<"Electricity Equivalent CO2 Savings - LOW (lb/year)">>
CO2_HIGH == <<"Electricity Equivalent CO2 Savings - HIGH (lb/year)">>
NOX_LOW == <<"Electricity NOx Savings LOW (lb/yr)">>
NOX_HIGH == <<"Electricity NOx Savings HIGH (lb/yr)">>
SO2_LOW == <<"Electricity SO2 Savings LOW">>
SO2_HIGH == <<"Electricity SO2 Savings HIGH (lb/yr)">>
PM25_LOW == <<"Electricity PM2.5 Savings LOW (lb/yr)">>
PM25_HIGH == <<"Electricity PM2.5 Savings HIGH (lb/yr)">>
DATE == <<"Date of Assessment">>
FIPS == <<"FIPS">>
STATUS == <<"Implemented? Yes/No/In Progress">>
COUNTY == <<"County">>
REPORT == <<"Report Number">>
RECOMMENDATION == <<"Recommendation Name">>
GAS_CO2_LB == <<"Gas Equivalent CO2 Savings (lb/yr)">>
EQ_CO2_TON == <<"Equivalent CO2 (ton/yr)">>
GAS_NOX_LB == <<"Gas NOx Savings (lb/yr)">>

\* update_data.py
target_cols == <<GAS, ELEC, COST, IMPL_COST, CO2_LOW, CO2_HIGH, NOX_LOW, NOX_HIGH,
                 SO2_LOW, SO2_HIGH, PM25_LOW, PM25_HIGH>>

\* build_site.py
input_cols == <<GAS, ELEC, COST, IMPL_COST, PERCENT>>

GAS_CO2_FACTOR == Num(117, 1)
GAS_NOX_FACTOR == Num(92, 1000)
GAS_SO2_FACTOR == Num(6, 10000)
GAS_PM25_FACTOR == Num(7, 1000)
ELEC_CO2_FACTOR == Num(15, 10)
ELEC_NOX_FACTOR == Num(1, 1000)
LB_PER_TON == Num(2000, 1)
TONS_PER_CAR == Num(507, 100)

\* ------------------------------------------------------------------ stages

\* pd.DataFrame(sheet.get_all_records()): a sheet without data rows gives a
\* frame without columns; every cell arrives as the text the sheet shows.
DataFrame(sh) ==
    IF sh.n = 0 THEN EmptyDF
    ELSE [n |-> sh.n,
          index |-> [i \in 1..sh.n |-> i],
          cols |-> [c \in 1..Len(sh.cols) |->
                       [name |-> sh.cols[c].name,
                        vals |-> [i \in 1..sh.n |-> Str(sh.cols[c].vals[i])]]]]

\* df.columns = df.columns.astype(str).str.strip()
StripHeaders(d) ==
    [d EXCEPT !.cols = [c \in 1..Len(d.cols) |-> [d.cols[c] EXCEPT !.name = Strip(@)]]]

\* if 'Company' in df.columns: df = df.drop(columns=['Company'])
DropCompany(d) == IF HasCol(d, COMPANY) THEN DropCol(d, COMPANY) ELSE d

\* One turn of a cleaning loop: default the column, then coerce it.
CleanOne(d, col) ==
    LET d0 == IF HasCol(d, col) THEN d ELSE SetCol(d, col, Broadcast(d, NumC(Zero)))
        old == Col(d0, col)
    IN  SetCol(d0, col, [i \in 1..d0.n |-> NumC(CleanNumeric(old[i]))])

\* The cleaning loop over cols.  df[col] of a name two columns carry is a
\* frame, which has no .str: the loop raises there.
RECURSIVE CleanLoop(_, _, _)
CleanLoop(d, cols, k) ==
    IF k > Len(cols) THEN [ok |-> TRUE, df |-> d]
    ELSE IF ColCount(d, cols[k]) > 1 THEN [ok |-> FALSE, df |-> d]
    ELSE CleanLoop(CleanOne(d, cols[k]), cols, k + 1)

\* column a * factor
Scaled(d, col, factor) == [i \in 1..d.n |-> NumC(FMul(Col(d, col)[i].v, factor))]

\* column a + column b
Added(d, a, b) == [i \in 1..d.n |-> NumC(FAdd(Col(d, a)[i].v, Col(d, b)[i].v))]

\* (column a + column b) / 2
Averaged(d, a, b) ==
    [i \in 1..d.n |-> NumC(FDiv(FAdd(Col(d, a)[i].v, Col(d, b)[i].v), Int2Num(2)))]

\* update_data.py: Elec_CO2_Avg with the fallback of the rows in mask_missing_co2
ElecCO2Avg(low, high, elec) ==
    LET avg == FDiv(FAdd(low, high), Int2Num(2))
    IN  IF FIsZero(avg) /\ FPos(elec) THEN FMul(elec, ELEC_CO2_FACTOR) ELSE avg

\* TotalCO2Tons with the long ton in place of the short one
TotalCO2TonsLongTon(gas_lb, elec_lb) == FDiv(FAdd(gas_lb, elec_lb), Num(2240, 1))

\* update_data.py: Total_CO2_Tons of one row
TotalCO2Tons(gas_lb, elec_lb) == FDiv(FAdd(gas_lb, elec_lb), LB_PER_TON)

\* update_data.py: Cars_Equivalent of one row
CarsEquivalent(tons) == FDiv(tons, TONS_PER_CAR)

\* update_data.py section 5
CalculateUpdate(d) ==
    LET d1 == SetCol(d, <<"Gas_CO2_lb">>, Scaled(d, GAS, GAS_CO2_FACTOR))
        d2 == SetCol(d1, <<"Gas_NOx_lb">>, Scaled(d, GAS, GAS_NOX_FACTOR))
        d3 == SetCol(d2, <<"Gas_SO2_lb">>, Scaled(d, GAS, GAS_SO2_FACTOR))
        d4 == SetCol(d3, <<"Gas_PM25_lb">>, Scaled(d, GAS, GAS_PM25_FACTOR))
        d5 == SetCol(d4, <<"Elec_CO2_Avg">>,
                     [i \in 1..d.n |-> NumC(ElecCO2Avg(Col(d, CO2_LOW)[i].v,
                                                       Col(d, CO2_HIGH)[i].v,
                                                       Col(d, ELEC)[i].v))])
        d6 == SetCol(d5, <<"Elec_NOx_Avg">>, Averaged(d, NOX_LOW, NOX_HIGH))
        d7 == SetCol(d6, <<"Elec_SO2_Avg">>, Averaged(d, SO2_LOW, SO2_HIGH))
        d8 == SetCol(d7, <<"Elec_PM25_Avg">>, Averaged(d, PM25_LOW, PM25_HIGH))
        d9 == SetCol(d8, <<"Total_CO2_Tons">>,
                     [i \in 1..d.n |->
                         NumC(TotalCO2Tons(Col(d8, <<"Gas_CO2_lb">>)[i].v,
                                           Col(d8, <<"Elec_CO2_Avg">>)[i].v))])
        d10 == SetCol(d9, <<"Total_NOx_lb">>, Added(d9, <<"Gas_NOx_lb">>, <<"Elec_NOx_Avg">>))
        d11 == SetCol(d10, <<"Total_SO2_lb">>, Added(d9, <<"Gas_SO2_lb">>, <<"Elec_SO2_Avg">>))
        d12 == SetCol(d11, <<"Total_PM25_lb">>,
                      Added(d9, <<"Gas_PM25_lb">>, <<"Elec_PM25_Avg">>))
    IN  SetCol(d12, <<"Cars_Equivalent">>,
               [i \in 1..d.n |-> NumC(CarsEquivalent(Col(d12, <<"Total_CO2_Tons">>)[i].v))])

\* build_site.py: 'Equivalent CO2 (ton/yr)' of one row
EquivalentCO2(gas_lb, elec_lb) == FDiv(FAdd(gas_lb, elec_lb), LB_PER_TON)

\* build_site.py section 4
CalculateBuild(d) ==
    LET d1 == SetCol(d, GAS_CO2_LB, Scaled(d, GAS, GAS_CO2_FACTOR))
        d2 == SetCol(d1, CO2_HIGH, Scaled(d, ELEC, ELEC_CO2_FACTOR))
        d3 == SetCol(d2, EQ_CO2_TON,
                     [i \in 1..d.n |-> NumC(EquivalentCO2(Col(d2, GAS_CO2_LB)[i].v,
                                                          Col(d2, CO2_HIGH)[i].v))])
        d4 == SetCol(d3, GAS_NOX_LB, Scaled(d, GAS, GAS_NOX_FACTOR))
    IN  SetCol(d4, NOX_HIGH, Scaled(d, ELEC, ELEC_NOX_FACTOR))

\* YearOf without the regex fallback
YearOfNoFallback(text) == ParsedYear(text)

\* update_data.py: Year of one date text
YearOf(text) ==
    LET year == ParsedYear(text)
    IN  IF year = 0 THEN ExtractYear(text) ELSE year

\* update_data.py section 6, Year
WithYear(d) ==
    IF HasCol(d, DATE)
    THEN SetCol(d, <<"Year">>,
                [i \in 1..d.n |-> NumC(Int2Num(YearOf(AsStr(Col(d, DATE)[i]))))])
    ELSE SetCol(d, <<"Year">>, Broadcast(d, NumC(Zero)))

\* update_data.py: FIPS of one cell; astype(int) raises on a non-finite value
FipsRaises(c) == ~IsFinite(FillNa0(RawNumeric(c)))

FipsCode(c) == ZFill(IntToStr(Trunc(FillNa0(RawNumeric(c)))), 5)

\* update_data.py section 6, FIPS
WithFips(d) ==
    IF HasCol(d, FIPS)
    THEN SetCol(d, FIPS, [i \in 1..d.n |-> Str(FipsCode(Col(d, FIPS)[i]))])
    ELSE d

\* df.to_json(orient='records') of one cell: a non-finite number is null.
\* Numbers are written exactly (to_json keeps 10 decimals).
JsonCell(c) == IF c.t = "num" /\ ~IsFinite(c.v) THEN Null ELSE c

ToJson(d) ==
    [d EXCEPT !.cols = [c \in 1..Len(d.cols) |->
                           [d.cols[c] EXCEPT !.vals = [i \in 1..d.n |-> JsonCell(@[i])]]]]

\* to_json(orient='records') refuses columns that are not unique
UniqueCols(d) == \A i, j \in 1..Len(d.cols) : d.cols[i].name = d.cols[j].name => i = j

\* ImplementedRows comparing with the status in lower case
ImplementedRowsLowerCase(d) ==
    IF HasCol(d, STATUS) THEN TakeRows(d, RowsEqual(Col(d, STATUS), <<"yes">>, 1)) ELSE d

\* build_site.py: implemented_df
ImplementedRows(d) ==
    IF HasCol(d, STATUS) THEN TakeRows(d, RowsEqual(Col(d, STATUS), <<"Yes">>, 1)) ELSE d

\* build_site.py: progress_df
ProgressRows(d) ==
    IF HasCol(d, STATUS)
    THEN TakeRows(d, RowsEqual(Col(d, STATUS), <<"In Progress">>, 1))
    ELSE EmptyDF

\* groupby('County')[col].sum().reset_index(): one [County, sum] per county
GroupSum(d, key, col) ==
    {[key |-> k, sum |-> FSumFrom([i \in 1..d.n |->
                  IF Col(d, key)[i] = k THEN Col(d, col)[i] ELSE NumC(NaN)], 1)]
        : k \in {Col(d, key)[i] : i \in 1..d.n}}

\* df[[...]]: the named columns, in that order
Project(d, names) ==
    [d EXCEPT !.cols = [k \in 1..Len(names) |->
                           [name |-> names[k], vals |-> Col(d, names[k])]]]

\* .head(n)
TableLimit == 10

HeadRows(d, k) == TakeRows(d, [i \in 1..(IF d.n < k THEN d.n ELSE k) |-> i])

\* sort_values(col, ascending)
SortValues(d, col, ascending) == TakeRows(d, SortedPos(Col(d, col), d.n, ascending))

\* ------------------------------------------------------------------ state

VARIABLES
    script,           \* which script this run is: "update_data" or "build_site"
    secret,           \* os.environ's GCP_SERVICE_ACCOUNT: "missing", "malformed", "valid"
    fetch_ok,         \* whether opening and reading the sheet succeeds
    sheet,            \* the sheet as the upstream holds it
    pc,               \* the section the run has completed
    df,
    df_clean,         \* df as the cleaning loop left it (kept for comparison)
    implemented_df,
    progress_df,
    chart_source,
    chart_county,
    chart_progress,
    html_content,
    site_data_json,   \* the file site_data.json
    index_html,       \* the file index.html
    exit_code,        \* -1 while the run is going
    error             \* what ended the run early

vars == <<script, secret, fetch_ok, sheet, pc, df, df_clean, implemented_df, progress_df,
          chart_source, chart_county, chart_progress, html_content, site_data_json,
          index_html, exit_code, error>>

report_vars == <<implemented_df, progress_df, chart_source, chart_county, chart_progress,
                 html_content>>

NoChart == [kind |-> "none", data |-> <<>>]

NoHtml == [count |-> 0, total_co2 |-> Zero, total_nox |-> Zero, total_dollars |-> Zero,
           chart_source |-> NoChart, chart_county |-> NoChart,
           chart_progress |-> NoChart, table |-> EmptyDF]

\* a file the run has not written keeps what an earlier run left
Untouched == [written |-> FALSE, content |-> EmptyDF, html |-> NoHtml]

\* exit(1), or an exception nothing catches
Abort(why) ==
    /\ pc' = "exit"
    /\ exit_code' = 1
    /\ error' = why

\* section 1 of both scripts: the secret, then json.loads and the credentials
Authenticate ==
    /\ pc = "start"
    /\ IF secret = "missing" THEN Abort("missing_secret")
       ELSE IF secret = "malformed" THEN Abort("credentials")
       ELSE pc' = "authenticated" /\ UNCHANGED <<exit_code, error>>
    /\ UNCHANGED <<script, secret, fetch_ok, sheet, df, df_clean, site_data_json, index_html>>
    /\ UNCHANGED report_vars

\* LoadData with the except clause going on with an empty frame
LoadDataSwallow ==
    /\ pc = "authenticated"
    /\ df' = (IF fetch_ok THEN StripHeaders(DataFrame(sheet)) ELSE EmptyDF)
    /\ pc' = "loaded"
    /\ UNCHANGED <<exit_code, error>>
    /\ UNCHANGED <<script, secret, fetch_ok, sheet, df_clean, site_data_json, index_html>>
    /\ UNCHANGED report_vars

\* section 2 of both scripts: the fetch, inside try/except
LoadData ==
    /\ pc = "authenticated"
    /\ IF fetch_ok
       THEN /\ df' = StripHeaders(DataFrame(sheet))
            /\ pc' = "loaded"
            /\ UNCHANGED <<exit_code, error>>
       ELSE Abort("fetch") /\ UNCHANGED df
    /\ UNCHANGED <<script, secret, fetch_ok, sheet, df_clean, site_data_json, index_html>>
    /\ UNCHANGED report_vars

\* section 3 of both scripts: the privacy filter
Sanitize ==
    /\ pc = "loaded"
    /\ df' = DropCompany(df)
    /\ pc' = "sanitized"
    /\ UNCHANGED <<script, secret, fetch_ok, sheet, df_clean, site_data_json, index_html,
                   exit_code, error>>
    /\ UNCHANGED report_vars

\* update_data.py section 4
CleanUpdate ==
    /\ pc = "sanitized" /\ script = "update_data"
    /\ LET r == CleanLoop(df, target_cols, 1)
       IN  IF r.ok
           THEN /\ df' = r.df
                /\ df_clean' = r.df
                /\ pc' = "cleaned"
                /\ UNCHANGED <<exit_code, error>>
           ELSE Abort("AttributeError") /\ UNCHANGED <<df, df_clean>>
    /\ UNCHANGED <<script, secret, fetch_ok, sheet, site_data_json, index_html>>
    /\ UNCHANGED report_vars

\* build_site.py section 3, the loop
CleanBuild ==
    /\ pc = "sanitized" /\ script = "build_site"
    /\ LET r == CleanLoop(df, input_cols, 1)
       IN  IF r.ok
           THEN /\ df' = r.df
                /\ df_clean' = r.df
                /\ pc' = "cleaned"
                /\ UNCHANGED <<exit_code, error>>
           ELSE Abort("AttributeError") /\ UNCHANGED <<df, df_clean>>
    /\ UNCHANGED <<script, secret, fetch_ok, sheet, site_data_json, index_html>>
    /\ UNCHANGED report_vars

\* update_data.py section 5
CalcUpdate ==
    /\ pc = "cleaned" /\ script = "update_data"
    /\ df' = CalculateUpdate(df)
    /\ pc' = "calculated"
    /\ UNCHANGED <<script, secret, fetch_ok, sheet, df_clean, site_data_json, index_html,
                   exit_code, error>>
    /\ UNCHANGED report_vars

\* build_site.py section 4
CalcBuild ==
    /\ pc = "cleaned" /\ script = "build_site"
    /\ df' = CalculateBuild(df)
    /\ pc' = "calculated"
    /\ UNCHANGED <<script, secret, fetch_ok, sheet, df_clean, site_data_json, index_html,
                   exit_code, error>>
    /\ UNCHANGED report_vars

\* update_data.py section 6
Metadata ==
    /\ pc = "calculated" /\ script = "update_data"
    /\ LET d == WithYear(df)
       IN  IF HasCol(d, FIPS) /\ \E i \in 1..d.n : FipsRaises(Col(d, FIPS)[i])
           THEN Abort("IntCastingNaNError") /\ df' = d
           ELSE /\ df' = WithFips(d)
                /\ pc' = "metadata"
                /\ UNCHANGED <<exit_code, error>>
    /\ UNCHANGED <<script, secret, fetch_ok, sheet, df_clean, site_data_json, index_html>>
    /\ UNCHANGED report_vars

\* update_data.py section 7
Export ==
    /\ pc = "metadata" /\ script = "update_data"
    /\ IF UniqueCols(df)
       THEN /\ site_data_json' = [written |-> TRUE, content |-> ToJson(df), html |-> NoHtml]
            /\ pc' = "done"
            /\ exit_code' = 0
            /\ UNCHANGED error
       ELSE Abort("ValueError_to_json") /\ UNCHANGED site_data_json
    /\ UNCHANGED <<script, secret, fetch_ok, sheet, df, df_clean, index_html>>
    /\ UNCHANGED report_vars

\* build_site.py section 5
PrepareReport ==
    /\ pc = "calculated" /\ script = "build_site"
    /\ implemented_df' = ImplementedRows(df)
    /\ progress_df' = ProgressRows(df)
    /\ pc' = "prepared"
    /\ UNCHANGED <<script, secret, fetch_ok, sheet, df, df_clean, site_data_json, index_html,
                   exit_code, error, chart_source, chart_county, chart_progress,
                   html_content>>

\* build_site.py section 6: px.bar raises on a y column the frame lacks
Visualize ==
    /\ pc = "prepared" /\ script = "build_site"
    /\ LET draws == progress_df.n > 0 /\ HasCol(progress_df, PERCENT)
       IN  IF draws /\ ~HasCol(progress_df, RECOMMENDATION)
           THEN Abort("ValueError_px_bar")
                /\ UNCHANGED <<progress_df, chart_source, chart_county, chart_progress>>
           ELSE /\ chart_source' =
                      [kind |-> "pie",
                       data |-> <<FSum(Col(implemented_df, GAS_CO2_LB)),
                                  FSum(Col(implemented_df, CO2_HIGH))>>]
                /\ chart_county' =
                      IF HasCol(implemented_df, COUNTY)
                      THEN [kind |-> "bar",
                            data |-> GroupSum(implemented_df, COUNTY, EQ_CO2_TON)]
                      ELSE [kind |-> "text", data |-> <<"Data missing">>]
                /\ progress_df' =
                      IF draws THEN SortValues(progress_df, PERCENT, TRUE) ELSE progress_df
                /\ chart_progress' =
                      IF draws
                      THEN [kind |-> "bar",
                            data |-> Project(SortValues(progress_df, PERCENT, TRUE),
                                             <<PERCENT, RECOMMENDATION>>)]
                      ELSE [kind |-> "text", data |-> <<"No active projects.">>]
                /\ pc' = "charts"
                /\ UNCHANGED <<exit_code, error>>
    /\ UNCHANGED <<script, secret, fetch_ok, sheet, df, df_clean, site_data_json, index_html,
                   implemented_df, html_content>>

\* build_site.py section 7, the f-string: the table's column selection raises
\* KeyError on a column the frame lacks.  The cards' number formatting is not
\* modelled.
GenerateHtml ==
    /\ pc = "charts" /\ script = "build_site"
    /\ IF HasCol(implemented_df, REPORT) /\ HasCol(implemented_df, RECOMMENDATION)
       THEN /\ html_content' =
                  [count |-> implemented_df.n,
                   total_co2 |-> FSum(Col(implemented_df, EQ_CO2_TON)),
                   total_nox |-> FAdd(FSum(Col(implemented_df, GAS_NOX_LB)),
                                      FSum(Col(implemented_df, NOX_HIGH))),
                   total_dollars |-> FSum(Col(implemented_df, COST)),
                   chart_source |-> chart_source,
                   chart_county |-> chart_county,
                   chart_progress |-> chart_progress,
                   table |-> Project(HeadRows(SortValues(implemented_df, EQ_CO2_TON, FALSE),
                                              TableLimit),
                                     <<REPORT, RECOMMENDATION, EQ_CO2_TON, COST>>)]
            /\ pc' = "html"
            /\ UNCHANGED <<exit_code, error>>
       ELSE Abort("KeyError") /\ UNCHANGED html_content
    /\ UNCHANGED <<script, secret, fetch_ok, sheet, df, df_clean, site_data_json, index_html,
                   implemented_df, progress_df, chart_source, chart_county, chart_progress>>

\* build_site.py, the write
WriteHtml ==
    /\ pc = "html" /\ script = "build_site"
    /\ index_html' = [written |-> TRUE, content |-> EmptyDF, html |-> html_content]
    /\ pc' = "done"
    /\ exit_code' = 0
    /\ UNCHANGED <<script, secret, fetch_ok, sheet, df, df_clean, site_data_json, error>>
    /\ UNCHANGED report_vars

Next ==
    \/ Authenticate
    \/ LoadData
    \/ Sanitize
    \/ CleanUpdate
    \/ CleanBuild
    \/ CalcUpdate
    \/ CalcBuild
    \/ Metadata
    \/ Export
    \/ PrepareReport
    \/ Visualize
    \/ GenerateHtml
    \/ WriteHtml

\* ------------------------------------------------------------------ inputs

MaxCellLen == 2       \* longest enumerated numeric cell text
MaxDateLen == 4       \* longest enumerated date text
MaxFipsLen == 3       \* longest enumerated FIPS text
MaxRows == 6          \* most rows of a sheet whose statuses are enumerated

\* every text of at most k characters over alphabet
Texts(alphabet, k) == {<<>>} \cup UNION {[1..m -> alphabet] : m \in 1..k}

Column(name, vals) == [name |-> name, vals |-> vals]

Sheet(n, cols) == [n |-> n, cols |-> cols]

\* the columns every sheet below starts from, row i differing from row j
BaseColumns(n, statuses) ==
    <<Column(REPORT, [i \in 1..n |-> <<"R", DigitChar(i)>>]),
      Column(RECOMMENDATION, [i \in 1..n |-> <<"LED retrofit ", DigitChar(i)>>]),
      Column(STATUS, statuses),
      Column(COUNTY, [i \in 1..n |-> IF i % 2 = 1 THEN <<"Salt Lake">> ELSE <<"Utah">>]),
      Column(GAS, [i \in 1..n |-> <<DigitChar(i), "0">>]),
      Column(ELEC, [i \in 1..n |-> <<"1", "0", "0", DigitChar(i - 1)>>]),
      Column(COST, [i \in 1..n |-> <<"$", "1", ",", DigitChar(i), "0", "0">>]),
      Column(PERCENT, [i \in 1..n |-> <<DigitChar(n - i + 1), "0", "%">>])>>

AllYes(n) == [i \in 1..n |-> <<"Yes">>]

\* column name's cells replaced
WithColumn(cols, name, vals) ==
    [c \in 1..Len(cols) |-> IF cols[c].name = name THEN Column(name, vals) ELSE cols[c]]

Scripts == {"update_data", "build_site"}

Run(sc, sh) == [script |-> sc, secret |-> "valid", fetch_ok |-> TRUE, sheet |-> sh]

\* the fatal conditions
FatalRuns ==
    {[script |-> sc, secret |-> se, fetch_ok |-> f,
      sheet |-> Sheet(2, BaseColumns(2, <<<<"Yes">>, <<"In Progress">>>>))]
        : sc \in Scripts, se \in {"missing", "malformed", "valid"}, f \in BOOLEAN}

CompanyHeaders == {<<"Company">>, <<" ", "Company">>, <<"Company", " ">>,
                   <<" ", "Company", " ">>, <<"company">>, <<" ", "company">>,
                   <<"COMPANY">>}

CompanyCells == {<<"Acme Corp">>, <<>>}

\* the sensitive column once, or twice under headers that differ
PrivacyRuns ==
    {Run(sc, Sheet(1, <<Column(h, <<c>>)>> \o BaseColumns(1, AllYes(1))))
        : sc \in Scripts, h \in CompanyHeaders, c \in CompanyCells}
    \cup
    {Run(sc, Sheet(1, <<Column(hh[1], <<c>>)>> \o BaseColumns(1, AllYes(1))
                        \o <<Column(hh[2], <<<<"Acme Corp">>>>)>>))
        : sc \in Scripts, c \in CompanyCells,
          hh \in {p \in CompanyHeaders \X CompanyHeaders : p[1] # p[2]}}

\* a numeric column twice, under headers that differ in blanks only
DuplicateRuns ==
    {Run(sc, Sheet(1, BaseColumns(1, AllYes(1))
                        \o <<Column(<<" ">> \o h, <<<<"5">>>>)>>))
        : sc \in Scripts, h \in {COST, GAS}}

OptionalColumns == {REPORT, RECOMMENDATION, STATUS, COUNTY, GAS, ELEC, COST, PERCENT}

\* any subset of the columns over one row; a sheet without data rows
SubsetRuns ==
    {Run(sc, Sheet(1, SelectSeq(BaseColumns(1, <<st>>) \o
                                <<Column(DATE, <<<<"2", "0", "2", "4">>>>),
                                  Column(FIPS, <<<<"1", "0", "0", "1">>>>)>>,
                                LAMBDA c : c.name \in keep)))
        : sc \in Scripts, st \in {<<"Yes">>, <<"In Progress">>},
          keep \in SUBSET (OptionalColumns \cup {DATE, FIPS})}
    \cup
    {Run(sc, Sheet(0, cols)) : sc \in Scripts, cols \in {<<>>, BaseColumns(0, <<>>)}}

NumericAlphabet == {"$", ",", "%", "1", ".", "-", "i", "n", "f"}

NumericExamples ==
    {<<"$", "1", ",", "2", "3", "4", ".", "5", "0">>, <<"1", "2", "%">>, <<"T", "B", "D">>,
     <<" ", "7", " ">>, <<"I", "n", "f", "i", "n", "i", "t", "y">>, <<"n", "a", "n">>,
     <<"1", ".", "2", ".", "3">>, <<"+", "2", "5">>, <<"-", "$", "4", "0">>,
     <<"i", "n", "f">>, <<"-", "i", "n", "f">>, <<"$", "i", "n", "f">>}

\* one numeric cell over every short text
NumericRuns ==
    {Run(sc, Sheet(1, WithColumn(BaseColumns(1, AllYes(1)), COST, <<t>>)))
        : sc \in Scripts, t \in Texts(NumericAlphabet, MaxCellLen) \cup NumericExamples}

GasTexts == {<<>>, <<"1", "0", "0">>, <<"i", "n", "f">>}
ElecTexts == {<<>>, <<"1", "0", "0", "0">>, <<"-", "5">>, <<"-", "i", "n", "f">>}
LowTexts == {<<>>, <<"0">>, <<"8", "0", "0">>, <<"-", "1", "0", "0">>}
HighTexts == {<<>>, <<"1", "2", "0", "0">>, <<"1", "0", "0">>}

\* gas, electricity and the CO2 pair, the pair's columns there or not
EmissionRuns ==
    {Run(sc, Sheet(1, WithColumn(WithColumn(BaseColumns(1, AllYes(1)), GAS, <<g>>),
                                 ELEC, <<e>>)))
        : sc \in Scripts, g \in GasTexts, e \in ElecTexts}
    \cup
    {Run(sc, Sheet(1, WithColumn(WithColumn(BaseColumns(1, AllYes(1)), GAS, <<g>>),
                                 ELEC, <<e>>)
                        \o <<Column(CO2_LOW, <<l>>), Column(CO2_HIGH, <<h>>)>>))
        : sc \in Scripts, g \in GasTexts, e \in ElecTexts, l \in LowTexts, h \in HighTexts}
    \cup
    {Run(sc, Sheet(2, BaseColumns(2, AllYes(2))
                        \o <<Column(CO2_LOW, <<l, <<>>>>), Column(CO2_HIGH, <<h, <<>>>>),
                             Column(NOX_LOW, <<<<"2">>, <<>>>>),
                             Column(NOX_HIGH, <<<<"4">>, <<"x">>>>)>>))
        : sc \in Scripts, l \in LowTexts, h \in HighTexts}

StatusValues == {<<"Yes">>, <<"In Progress">>, <<"No">>}

OddStatusValues == {<<>>, <<"yes">>, <<"Yes", " ">>, <<"Yes">>}

\* every assignment of statuses to up to MaxRows rows; the status column
\* missing; statuses that are near misses
StatusRuns ==
    UNION {{Run("build_site", Sheet(n, BaseColumns(n, st))) : st \in [1..n -> StatusValues]}
              : n \in 0..MaxRows}
    \cup
    {Run("build_site", Sheet(n, SelectSeq(BaseColumns(n, AllYes(n)),
                                          LAMBDA c : c.name # STATUS)))
        : n \in 0..MaxRows}
    \cup
    {Run("build_site", Sheet(2, BaseColumns(2, <<s1, s2>>)))
        : s1 \in OddStatusValues, s2 \in OddStatusValues}

DateAlphabet == {"2", "0", "-", "x"}

DateExamples ==
    {<<"2", "0", "2", "4", "-", "0", "3", "-", "1", "5">>,
     <<"s", "e", "e", " ", "n", "o", "t", "e", "s", ",", " ", "2", "0", "2", "3", " ",
       "s", "u", "r", "v", "e", "y">>,
     <<"u", "n", "k", "n", "o", "w", "n">>,
     <<"2", "0", "2", "3", "-", "0", "6">>,
     <<"2", "0", "2", "3", "-", "0", "2", "-", "3", "0">>,
     <<"2", "0", "2", "4", "-", "0", "2", "-", "2", "9">>,
     <<"2", "0", "2", "4", "-", "1", "3", "-", "0", "1">>,
     <<"1", "5", "0", "0", "-", "0", "1", "-", "0", "1">>,
     <<"9", "9", "9", "9">>,
     <<"F", "Y", "1", "9", " ", "1", "2", "3", "4", "5">>}

\* one date cell over every short text; two rows, one parsed and one not;
\* the date column missing
DateRuns ==
    {Run("update_data", Sheet(1, BaseColumns(1, AllYes(1)) \o <<Column(DATE, <<t>>)>>))
        : t \in Texts(DateAlphabet, MaxDateLen) \cup DateExamples}
    \cup
    {Run("update_data", Sheet(2, BaseColumns(2, AllYes(2)) \o <<Column(DATE, <<t1, t2>>)>>))
        : t1 \in DateExamples, t2 \in DateExamples}
    \cup
    {Run("update_data", Sheet(2, BaseColumns(2, AllYes(2))))}

FipsAlphabet == {"1", "0", ".", "-", "x"}

FipsExamples ==
    {<<"4", "9", "0", "3", "5", ".", "0">>, <<"4", "9", "0", "3", "5">>,
     <<"1", "0", "0", "1">>, <<"N", "/", "A">>, <<"i", "n", "f">>,
     <<"1", "2", "3", "4", "5", "6">>, <<"4", "9", "0", "3", "5", ".", "9">>,
     <<"-", "4", "2">>}

\* one FIPS cell over every short text; the FIPS column missing
FipsRuns ==
    {Run("update_data", Sheet(1, BaseColumns(1, AllYes(1)) \o <<Column(FIPS, <<t>>)>>))
        : t \in Texts(FipsAlphabet, MaxFipsLen) \cup FipsExamples}
    \cup
    {Run("update_data", Sheet(2, BaseColumns(2, AllYes(2))
                                 \o <<Column(FIPS, <<<<"1", "0", "0", "1">>, <<>>>>)>>))}

Inputs == FatalRuns \cup PrivacyRuns \cup DuplicateRuns \cup SubsetRuns \cup NumericRuns
          \cup EmissionRuns \cup StatusRuns \cup DateRuns \cup FipsRuns

Init ==
    /\ \E x \in Inputs :
          /\ script = x.script
          /\ secret = x.secret
          /\ fetch_ok = x.fetch_ok
          /\ sheet = x.sheet
    /\ pc = "start"
    /\ df = EmptyDF
    /\ df_clean = EmptyDF
    /\ implemented_df = EmptyDF
    /\ progress_df = EmptyDF
    /\ chart_source = NoChart
    /\ chart_county = NoChart
    /\ chart_progress = NoChart
    /\ html_content = NoHtml
    /\ site_data_json = Untouched
    /\ index_html = Untouched
    /\ exit_code = -1
    /\ error = "none"

Spec == Init /\ [][Next]_vars

\* ------------------------------------------------------------------ claims

Range(f) == {f[i] : i \in DOMAIN f}

\* a header that names the sensitive column, whatever its case and blanks
Sensitive(name) == Strip(name) \in {<<"Company">>, <<"company">>, <<"COMPANY">>}

SheetHeaders == {sheet.cols[c].name : c \in 1..Len(sheet.cols)}

\* the names of the columns whose data index.html embeds
HtmlColumns(h) ==
    ColNames(h.table)
    \cup (IF h.chart_county.kind = "bar" THEN {COUNTY, EQ_CO2_TON} ELSE {})
    \cup (IF h.chart_progress.kind = "bar" THEN ColNames(h.chart_progress.data) ELSE {})

\* C1: whenever the sheet carries the sensitive column (under any casing,
\* padded, duplicated, with empty cells), no written artifact, site_data.json
\* or index.html, holds a column of that name.
C1_SensitiveColumnAbsent ==
    (\E h \in SheetHeaders : Sensitive(h)) =>
        /\ site_data_json.written =>
              \A c \in ColNames(site_data_json.content) : ~Sensitive(c)
        /\ index_html.written => \A c \in HtmlColumns(index_html.html) : ~Sensitive(c)

\* the columns build_site.py cannot do without: the table selects them by name
TableColumnsMissing ==
    script = "build_site"
    /\ (sheet.n = 0 \/ \E col \in {REPORT, RECOMMENDATION} :
                           \A h \in SheetHeaders : Strip(h) # col)

\* C2: a fatal error (the secret missing or unusable, the fetch failing, a
\* column build_site.py requires missing) ends the run with a non-zero exit
\* and no file written; a file is written only by a run that has completed
\* every computation, and then holds the complete result.
C2_FatalErrorWritesNothing ==
    /\ (secret # "valid" \/ ~fetch_ok \/ TableColumnsMissing \/ exit_code > 0)
          => (site_data_json = Untouched /\ index_html = Untouched)
    /\ (secret # "valid" /\ pc # "start") => (pc = "exit" /\ exit_code = 1)
    /\ (secret = "valid" /\ ~fetch_ok /\ pc \notin {"start", "authenticated"})
          => (pc = "exit" /\ exit_code = 1 /\ error = "fetch")
    /\ TableColumnsMissing => pc \notin {"html", "done"}
    /\ site_data_json.written =>
          /\ pc = "done" /\ exit_code = 0 /\ script = "update_data"
          /\ site_data_json.content = ToJson(df)
          /\ {<<"Cars_Equivalent">>, <<"Total_CO2_Tons">>, <<"Year">>} \subseteq ColNames(df)
    /\ index_html.written =>
          /\ pc = "done" /\ exit_code = 0 /\ script = "build_site"
          /\ index_html.html = html_content
          /\ html_content.chart_source.kind = "pie"
          /\ html_content.chart_county.kind # "none"
          /\ html_content.chart_progress.kind # "none"
          /\ html_content.count = implemented_df.n

C2_Witness ==
    /\ pc = "exit" /\ exit_code = 1 /\ error = "fetch"
    /\ site_data_json = Untouched /\ index_html = Untouched

\* C3: after normalization no later stage's column lookup fails, whatever
\* columns (and rows) the sheet supplied.
C3_NoLookupFails == error \notin {"KeyError", "ValueError_px_bar"}

\* the columns the script's cleaning loop coerces
NumericColumns == IF script = "update_data" THEN Range(target_cols) ELSE Range(input_cols)

CostText == Col(StripHeaders(DataFrame(sheet)), COST)[1].s

\* C4: after normalization every cell of every numeric column is a finite
\* number ("$1,234.50" is 1234.5, "12%" is 12, "TBD" and "" are 0), every row
\* is kept and the loop does not abort the run.
C4_NumericCellsFinite ==
    /\ error # "AttributeError"
    /\ pc = "cleaned" =>
          /\ df.n = sheet.n
          /\ \A col \in NumericColumns : \A i \in 1..df.n :
                Col(df, col)[i].t = "num" /\ IsFinite(Col(df, col)[i].v)
          /\ (sheet.n = 1 /\ COST \in SheetHeaders) =>
                /\ CostText = <<"$", "1", ",", "2", "3", "4", ".", "5", "0">>
                      => Col(df, COST)[1].v = Num(2469, 2)
                /\ CostText = <<"1", "2", "%">> => Col(df, COST)[1].v = Int2Num(12)
                /\ CostText \in {<<>>, <<"T", "B", "D">>} => Col(df, COST)[1].v = Zero

\* the value the sheet supplied in column col of row i, as the cleaning reads
\* it; 0 when the sheet has no such column
Supplied(col, i) ==
    IF ~HasCol(df_clean, col) THEN Zero
    ELSE LET c == Col(df_clean, col)[i]
         IN  IF c.t = "num" THEN c.v ELSE CleanNumeric(c)

\* the electric-sourced CO2 of row i that the script's totals use
ElecCO2(i) ==
    IF script = "update_data" THEN Col(df, <<"Elec_CO2_Avg">>)[i].v
    ELSE Col(df, CO2_HIGH)[i].v

Calculated == pc \in {"calculated", "metadata", "prepared", "charts", "html", "done"}

\* C5: the electric-sourced CO2 of a row is the mean of the supplied low and
\* high estimates whenever the pair is not all zero, and electric savings x
\* 1.5 when the pair is absent (both zero) and electric savings is positive.
C5_FallbackOnlyWithoutPair ==
    Calculated => \A i \in 1..df.n :
        LET low == Supplied(CO2_LOW, i)
            high == Supplied(CO2_HIGH, i)
            elec == Supplied(ELEC, i)
        IN  /\ ~(FIsZero(low) /\ FIsZero(high))
                  => ElecCO2(i) = FDiv(FAdd(low, high), Int2Num(2))
            /\ (FIsZero(low) /\ FIsZero(high) /\ FPos(elec))
                  => ElecCO2(i) = FMul(elec, Num(3, 2))

Cell(col, i) == Col(df, col)[i].v

\* C6: total CO2 tons x 2000 is gas savings x 117 plus the row's electric
\* CO2, and cars x 5.07 is the total; 100 MMBtu with 1500 lb electric CO2 is
\* 6.6 tons; a row whose inputs are all 0 has all derived totals 0.
C6_TotalsFromFactors ==
    /\ (script = "update_data" /\ Calculated) => \A i \in 1..df.n :
          /\ FMul(Cell(<<"Total_CO2_Tons">>, i), Int2Num(2000))
                = FAdd(FMul(Cell(GAS, i), Int2Num(117)), ElecCO2(i))
          /\ FMul(Cell(<<"Cars_Equivalent">>, i), Num(507, 100))
                = Cell(<<"Total_CO2_Tons">>, i)
          /\ (Cell(GAS, i) = Int2Num(100) /\ ElecCO2(i) = Int2Num(1500))
                => /\ Cell(<<"Total_CO2_Tons">>, i) = Num(66, 10)
                   /\ Cell(<<"Cars_Equivalent">>, i) = Num(660, 507)
          /\ (\A col \in Range(target_cols) \ {COST, IMPL_COST} : Cell(col, i) = Zero)
                => \A t \in {<<"Total_CO2_Tons">>, <<"Total_NOx_lb">>, <<"Total_SO2_lb">>,
                             <<"Total_PM25_lb">>, <<"Cars_Equivalent">>} : Cell(t, i) = Zero
    /\ (script = "build_site" /\ Calculated) => \A i \in 1..df.n :
          /\ FMul(Cell(EQ_CO2_TON, i), Int2Num(2000))
                = FAdd(FMul(Cell(GAS, i), Int2Num(117)), ElecCO2(i))
          /\ (Cell(GAS, i) = Int2Num(100) /\ ElecCO2(i) = Int2Num(1500))
                => Cell(EQ_CO2_TON, i) = Num(66, 10)
          /\ (Cell(GAS, i) = Zero /\ Cell(ELEC, i) = Zero)
                => \A t \in {EQ_CO2_TON, GAS_CO2_LB, GAS_NOX_LB, NOX_HIGH} : Cell(t, i) = Zero

C6_Witness ==
    /\ script = "update_data" /\ pc = "done"
    /\ \E i \in 1..df.n :
          /\ Cell(GAS, i) = Int2Num(100)
          /\ Cell(ELEC, i) = Int2Num(1000)
          /\ ElecCO2(i) = Int2Num(1500)
          /\ Cell(<<"Total_CO2_Tons">>, i) = Num(33, 5)

\* C7: the FIPS code of a row is the integer part of the source value as a
\* decimal string zero-padded to width 5 ("49035.0" gives "49035", "1001"
\* gives "01001"); a source value that is empty or no number leaves the code
\* empty, never "00000", and does not abort the run.
C7_FipsPaddedOrEmpty ==
    /\ error # "IntCastingNaNError"
    /\ (pc = "metadata" /\ HasCol(df_clean, FIPS)) => \A i \in 1..df.n :
          LET src == Col(df_clean, FIPS)[i].s
              code == Col(df, FIPS)[i].s
          IN  /\ (src = <<>> \/ ~IsFinite(ToNumeric(src))) => code = <<>>
              /\ src = <<"4", "9", "0", "3", "5", ".", "0">>
                    => code = <<"4", "9", "0", "3", "5">>
              /\ src = <<"1", "0", "0", "1">> => code = <<"0", "1", "0", "0", "1">>
              /\ IsFinite(ToNumeric(src)) => Len(code) >= 5

\* the labels of the rows whose status is the text s
LabelsWith(s) ==
    {i \in 1..df.n : HasCol(df, STATUS) /\ Col(df, STATUS)[i] = Str(s)}

Prepared == script = "build_site" /\ pc \in {"prepared", "charts", "html", "done"}

Completed == IF HasCol(df, STATUS) THEN LabelsWith(<<"Yes">>) ELSE 1..df.n
Pipeline == IF HasCol(df, STATUS) THEN LabelsWith(<<"In Progress">>) ELSE {}

\* the sum of column col over the rows labelled in S, a NaN cell skipped
RECURSIVE SumOver(_, _, _)
SumOver(col, S, k) ==
    IF k = 0 THEN Zero
    ELSE IF k \in S /\ ~IsNaN(Cell(col, k)) THEN FAdd(SumOver(col, S, k - 1), Cell(col, k))
    ELSE SumOver(col, S, k - 1)

\* sub holds exactly the rows of df labelled in S, each with df's cells
IsSubsetOfRows(sub, S) ==
    /\ sub.n = Cardinality(S)
    /\ Len(sub.index) = sub.n
    /\ Range(sub.index) = S
    /\ S # {} => /\ Len(sub.cols) = Len(df.cols)
                 /\ \A c \in 1..Len(df.cols) : \A k \in 1..sub.n :
                       sub.cols[c].vals[k] = df.cols[c].vals[sub.index[k]]

FourDigitsAt(s, i) == i + 3 <= Len(s) /\ AllDigits(SubSeq(s, i, i + 3))

\* C9: Year is the parsed year when the date text parses, else the first
\* four-digit substring of the text, else 0; 0 when the sheet has no date
\* column.
C9_YearExtraction ==
    (script = "update_data" /\ pc \in {"metadata", "done"}) => \A i \in 1..df.n :
        LET year == Cell(<<"Year">>, i)
        IN  IF ~HasCol(df_clean, DATE) THEN year = Zero
            ELSE LET text == Col(df_clean, DATE)[i].s
                 IN  /\ ParsedYear(text) # 0 => year = Int2Num(ParsedYear(text))
                     /\ (ParsedYear(text) = 0 /\ \E p \in 1..Len(text) : FourDigitsAt(text, p))
                           => LET p == CHOOSE p \in 1..Len(text) :
                                          /\ FourDigitsAt(text, p)
                                          /\ \A q \in 1..(p - 1) : ~FourDigitsAt(text, q)
                              IN  year = Int2Num(1000 * DigitVal(text[p])
                                                 + 100 * DigitVal(text[p + 1])
                                                 + 10 * DigitVal(text[p + 2])
                                                 + DigitVal(text[p + 3]))
                     /\ (ParsedYear(text) = 0 /\ ~\E p \in 1..Len(text) : FourDigitsAt(text, p))
                           => year = Zero
                     /\ text = <<"2", "0", "2", "4", "-", "0", "3", "-", "1", "5">>
                           => year = Int2Num(2024)

C9_Witness ==
    /\ script = "update_data" /\ pc = "done" /\ HasCol(df_clean, DATE)
    /\ \E i \in 1..df.n :
          /\ Col(df_clean, DATE)[i].s =
                <<"s", "e", "e", " ", "n", "o", "t", "e", "s", ",", " ", "2", "0", "2", "3",
                  " ", "s", "u", "r", "v", "e", "y">>
          /\ Cell(<<"Year">>, i) = Int2Num(2023)

\* C10: derivation only adds: every column the normalized frame has keeps
\* its cells, and the rows keep their number and order.
C10_DerivationAdditive ==
    Calculated =>
        /\ df.n = df_clean.n
        /\ df.index = df_clean.index
        /\ \A c \in 1..Len(df_clean.cols) :
              /\ HasCol(df, df_clean.cols[c].name)
              /\ df.cols[c] = df_clean.cols[c]

====
